---- MODULE Spec2Model ----
(***************************************************************************)
(* Model of bot.py: a Telegram bot that relays each text message to an AI  *)
(* provider (OpenAI or Gemini) and sends the answer back to the chat.      *)
(*                                                                         *)
(* A Python str is modelled as a sequence of chunks.  Text produced by the *)
(* provider is a sequence of one-character chunks over Chars; a literal of *)
(* the program is a sequence of its pieces (a format string is the         *)
(* sequence of its literal pieces and its interpolated values).  The empty *)
(* str is << >>.                                                           *)
(***************************************************************************)
EXTENDS Naturals, Sequences, FiniteSets

\* ------------------------------------------------------------------ bounds

\* Longest text a provider returns in the model.
MaxLen == 2

\* Number of updates the polling loop delivers in the model.
NumUpdates == 2

\* ------------------------------------------------------------ Python values

Chars == {" ", "a"}

Texts == UNION {[1..k -> Chars] : k \in 0..MaxLen}

\* Python's None, where a str is expected (os.getenv of an unset variable).
None == "<None>"

\* bool(x) of a str or None: None and "" are falsy.
TruthyStr(x) == x /= None /\ x /= ""

RECURSIVE LStrip(_)
LStrip(s) == IF s = << >> THEN s
             ELSE IF Head(s) = " " THEN LStrip(Tail(s)) ELSE s

RECURSIVE RStrip(_)
RStrip(s) == IF s = << >> THEN s
             ELSE IF s[Len(s)] = " " THEN RStrip(SubSeq(s, 1, Len(s) - 1)) ELSE s

\* str.strip(): leading and trailing whitespace removed.
Strip(s) == RStrip(LStrip(s))

\* str.lower() on the values AI_PROVIDER takes in the model.
Lower(s) == CASE s = "Gemini" -> "gemini"
              [] s = "OpenAI" -> "openai"
              [] OTHER -> s

\* str.capitalize() on the provider names.
Capitalize(s) == CASE s = "openai" -> "Openai"
                   [] s = "gemini" -> "Gemini"
                   [] OTHER -> s

\* os.getenv(name, default)
Getenv(value, default) == IF value = None THEN default ELSE value

\* ------------------------------------------------------- literals of bot.py

DefaultProvider == "openai"
DefaultOpenAIModel == "gpt-3.5-turbo"
DefaultGeminiModel == "gemini-pro"

EmptyResponseMsg == <<"Sorry, I received an empty response from the AI.">>

CouldntGenerateMsg == <<"Sorry, I couldn't generate a text response from that.">>

\* Line 121 written without the interpolated reason.
BlockedMsgNoName(name) == <<"My response was blocked. Please rephrase your request.">>

BlockedMsg(name) ==
    <<"My response was blocked due to: ", name, ". Please rephrase your request.">>

FailureMsg(provider) ==
    <<"Sorry, I encountered an error trying to reach the AI (", Capitalize(provider),
      "). Please try again later.">>

FallbackMsg == <<"Sorry, I couldn't send the response back. Please try again.">>

StartMsg(provider) ==
    <<"Hi ", "user", "!\n\nI'm an AI chat bot powered by ", Capitalize(provider), ".">>

\* ------------------------------------------------------- provider responses

\* genai BlockReason is an IntEnum: BLOCK_REASON_UNSPECIFIED = 0 is falsy.
BlockReasons == 0..2

BlockReasonName(r) == CASE r = 0 -> "BLOCK_REASON_UNSPECIFIED"
                        [] r = 1 -> "SAFETY"
                        [] r = 2 -> "OTHER"

\* A Gemini candidate, as far as lines 113-114 read it.
Candidates ==
    {[has_content |-> FALSE, has_parts |-> FALSE, parts |-> << >>],
     [has_content |-> TRUE, has_parts |-> FALSE, parts |-> << >>],
     [has_content |-> TRUE, has_parts |-> TRUE, parts |-> << >>]}
    \cup {[has_content |-> TRUE, has_parts |-> TRUE, parts |-> <<t>>] : t \in Texts}

PromptFeedbacks ==
    {[set |-> FALSE, block_reason |-> 0]}
    \cup {[set |-> TRUE, block_reason |-> r] : r \in BlockReasons}

\* What generate_content_async does: raise, or return a response.  Only the
\* first candidate is ever read, so one candidate stands for the list.
GeminiOutcomes ==
    {[kind |-> "raise", candidates |-> << >>, prompt_feedback |-> [set |-> FALSE, block_reason |-> 0]]}
    \cup {[kind |-> "response", candidates |-> cs, prompt_feedback |-> pf] :
            cs \in {<< >>} \cup {<<c>> : c \in Candidates}, pf \in PromptFeedbacks}

\* What chat.completions.create does: raise, or return a completion whose
\* choices list is empty or whose first message content is None or a str.
OpenAIOutcomes ==
    {[kind |-> "raise", choices |-> << >>]}
    \cup {[kind |-> "completion", choices |-> << >>]}
    \cup {[kind |-> "completion", choices |-> <<[is_none |-> TRUE, content |-> << >>]>>]}
    \cup {[kind |-> "completion", choices |-> <<[is_none |-> FALSE, content |-> t]>>] :
            t \in Texts}

\* --------------------------------------------------------- get_ai_response

\* Result of evaluating a block: a value, or an exception type.
Ok(v) == [exc |-> "none", value |-> v]
Raise(e) == [exc |-> e, value |-> << >>]

\* `await x` needs an awaitable.  openai.OpenAI is the synchronous client:
\* its create() returns the ChatCompletion itself, and awaiting it raises
\* TypeError.  openai.AsyncOpenAI returns a coroutine.
Awaitable(client) == client \in {"AsyncOpenAI", "GenerativeModel"}

\* Lines 92-103.
OpenAIBranch(client, out) ==
    IF out.kind = "raise" THEN Raise("APIError")
    ELSE IF ~Awaitable(client) THEN Raise("TypeError")
    ELSE IF out.choices = << >> THEN Raise("IndexError")
    ELSE IF out.choices[1].is_none THEN Raise("AttributeError")
    ELSE Ok(Strip(out.choices[1].content))

\* Lines 111-125 without the truthiness test of parts.
GeminiExtractNoPartsCheck(response) ==
    IF response.candidates /= << >> THEN
        IF response.candidates[1].has_content /\ response.candidates[1].has_parts
        THEN IF response.candidates[1].parts = << >> THEN Raise("IndexError")
             ELSE Ok(response.candidates[1].parts[1])
        ELSE Ok(CouldntGenerateMsg)
    ELSE IF response.prompt_feedback.set /\ response.prompt_feedback.block_reason /= 0
    THEN Ok(BlockedMsg(BlockReasonName(response.prompt_feedback.block_reason)))
    ELSE Ok(EmptyResponseMsg)

\* Lines 111-125.
GeminiExtract(response) ==
    IF response.candidates /= << >> THEN
        IF /\ response.candidates[1].has_content
           /\ response.candidates[1].has_parts
           /\ response.candidates[1].parts /= << >>
        THEN Ok(response.candidates[1].parts[1])
        ELSE Ok(CouldntGenerateMsg)
    ELSE IF response.prompt_feedback.set /\ response.prompt_feedback.block_reason /= 0
    THEN Ok(BlockedMsg(BlockReasonName(response.prompt_feedback.block_reason)))
    ELSE Ok(EmptyResponseMsg)

\* Lines 109-125.
GeminiBranch(client, out) ==
    IF out.kind = "raise" THEN Raise("APIError")
    ELSE IF ~Awaitable(client) THEN Raise("TypeError")
    ELSE GeminiExtract(out)

\* The exception types the model raises; all are subclasses of Exception.
ExceptionTypes == {"APIError", "TypeError", "IndexError", "AttributeError"}

\* Line 131 written as an except clause for the provider's API errors only.
CatchesApiErrorOnly(e) == e = "APIError"

\* Line 131: `except Exception` catches every subclass of Exception.
Catches(e) == e \in ExceptionTypes

\* Lines 85-133.  raised: the exception left the function.
get_ai_response(provider, client, out) ==
    LET body == IF provider = "openai" THEN OpenAIBranch(client, out)
                ELSE GeminiBranch(client, out)
    IN  IF body.exc = "none"
        THEN [raised |-> FALSE, exc |-> "none", value |-> body.value]
        ELSE IF Catches(body.exc)
        THEN [raised |-> FALSE, exc |-> body.exc, value |-> FailureMsg(provider)]
        ELSE [raised |-> TRUE, exc |-> body.exc, value |-> << >>]

Outcomes(provider) == IF provider = "openai" THEN OpenAIOutcomes ELSE GeminiOutcomes

\* ------------------------------------------------------------------ state

VARIABLES
    pc_main,     \* where the process is: module-level setup, main(), polling, exited
    cfg,         \* the module globals set at import time
    stdout,      \* the lines printed at startup
    registered,  \* the handlers added to the Application
    h,           \* one handler invocation per update: its position and locals
    outbox,      \* per chat, the texts Telegram accepted, with the update they answer
    probe        \* one isolated call of get_ai_response: its inputs and its result

vars == <<pc_main, cfg, stdout, registered, h, outbox, probe>>

Updates == 1..NumUpdates

\* effective_chat.id of update i: every update comes from its own chat.
ChatOf(i) == 100 + i

Chats == {ChatOf(i) : i \in Updates}

Letters == <<"a", "b", "c", "d", "e", "f">>

\* The text of update i when it is not empty.
TextOf(i) == <<"message ", Letters[i]>>

NoOutcome == [kind |-> "none"]

InitCfg == [AI_PROVIDER |-> None, api_key |-> None, client |-> None,
            model |-> None, TELEGRAM_BOT_TOKEN |-> None]

InitHandler == [pc |-> "idle", kind |-> "none", user_message |-> << >>, chat_id |-> 0,
                ai_response |-> << >>, requests |-> << >>, log |-> << >>]

InitProbe == [called |-> FALSE, user_message |-> << >>, outcome |-> NoOutcome,
              result |-> [raised |-> FALSE, exc |-> "none", value |-> << >>]]

Init ==
    /\ pc_main = "provider_setup"
    /\ cfg = InitCfg
    /\ stdout = << >>
    /\ registered = {}
    /\ h = [i \in Updates |-> InitHandler]
    /\ outbox = [c \in Chats |-> << >>]
    /\ probe = InitProbe

\* ---------------------------------------------------------------- startup

\* Lines 22 and 39 written as `if api_key is None`.
KeyMissingIsNone(key) == key = None

\* Lines 22 and 39: `if not api_key`.
KeyMissing(key) == ~TruthyStr(key)

\* Lines 16-56.  A failed import, a missing key and an invalid provider name
\* each print a line and end in exit().
ProviderSetup ==
    /\ pc_main = "provider_setup"
    /\ \E raw \in {None, "openai", "Gemini", "claude"},
          installed \in BOOLEAN,
          key \in {None, "", "key"},
          model \in {None, "custom-model"} :
        LET provider == Lower(Getenv(raw, DefaultProvider)) IN
        IF provider \in {"openai", "gemini"} THEN
            IF ~installed THEN
                /\ cfg' = [cfg EXCEPT !.AI_PROVIDER = provider]
                /\ stdout' = Append(stdout, "library not installed")
                /\ pc_main' = "exited"
            ELSE IF KeyMissing(key) THEN
                /\ cfg' = [cfg EXCEPT !.AI_PROVIDER = provider, !.api_key = key]
                /\ stdout' = Append(stdout, "API key not found in .env file")
                /\ pc_main' = "exited"
            ELSE
                /\ cfg' = [cfg EXCEPT
                             !.AI_PROVIDER = provider,
                             !.api_key = key,
                             !.client = IF provider = "openai" THEN "OpenAI"
                                        ELSE "GenerativeModel",
                             !.model = IF provider = "openai"
                                       THEN Getenv(model, DefaultOpenAIModel)
                                       ELSE Getenv(model, DefaultGeminiModel)]
                /\ stdout' = Append(stdout, "Using AI Provider")
                /\ pc_main' = "token_setup"
        ELSE
            /\ cfg' = [cfg EXCEPT !.AI_PROVIDER = provider]
            /\ stdout' = Append(stdout, "Invalid AI_PROVIDER")
            /\ pc_main' = "exited"
    /\ UNCHANGED <<registered, h, outbox, probe>>

\* Lines 59-62.
TokenSetup ==
    /\ pc_main = "token_setup"
    /\ \E token \in {None, "", "token"} :
        /\ cfg' = [cfg EXCEPT !.TELEGRAM_BOT_TOKEN = token]
        /\ stdout' = IF ~TruthyStr(token)
                     THEN Append(stdout, "TELEGRAM_BOT_TOKEN not found in .env file")
                     ELSE stdout
        /\ pc_main' = IF ~TruthyStr(token) THEN "exited" ELSE "main"
    /\ UNCHANGED <<registered, h, outbox, probe>>

\* Lines 169-186: build the application, add the handlers, start polling.
Main ==
    /\ pc_main = "main"
    /\ registered' = {"start_command", "handle_message", "error_handler"}
    /\ pc_main' = "polling"
    /\ UNCHANGED <<cfg, stdout, h, outbox, probe>>

\* --------------------------------------------------------------- handlers

Logged(i, event) == Append(h[i].log, event)

\* An invocation that returned or raised has no locals any more.
Ended(pc) == pc \in {"done", "raised"}

Local(pc, value) == IF Ended(pc) THEN << >> ELSE value

\* handle_message calling the provider again after a failed request.
NextPcRetry(pc, ok) ==
    CASE pc = "typing" -> IF ok THEN "ai" ELSE "raised"
      [] pc = "ai" -> IF ok THEN "reply" ELSE "ai"
      [] pc = "reply" -> IF ok THEN "done" ELSE "fallback"
      [] pc = "fallback" -> IF ok THEN "done" ELSE "raised"

\* The control flow of handle_message: the position after the step at `pc`
\* ended well (ok) or failed.
NextPc(pc, ok) ==
    CASE pc = "typing" -> IF ok THEN "ai" ELSE "raised"
      [] pc = "ai" -> "reply"
      [] pc = "reply" -> IF ok THEN "done" ELSE "fallback"
      [] pc = "fallback" -> IF ok THEN "done" ELSE "raised"

\* Line 154 echoing the user's text.
ReplyPayloadEcho(hr) == hr.user_message

\* Line 154: the text handed to reply_text.
ReplyPayload(hr) == hr.ai_response

\* Lines 176-179 and run_polling: an update arrives and the application
\* picks the handler.  CommandHandler("start") takes /start; the message
\* handler's filter TEXT & ~COMMAND takes a message whose text is not empty;
\* any other update is dropped.
Deliver(i) ==
    /\ pc_main = "polling"
    /\ h[i].pc = "idle"
    /\ \E kind \in {"command", "text"}, text \in {<< >>, TextOf(i)} :
        h' = [h EXCEPT ![i] =
                IF kind = "command" /\ "start_command" \in registered
                THEN [@ EXCEPT !.pc = "start", !.kind = kind, !.chat_id = ChatOf(i)]
                ELSE IF kind = "text" /\ text /= << >> /\ "handle_message" \in registered
                THEN [@ EXCEPT !.pc = "entry", !.kind = kind, !.user_message = text,
                               !.chat_id = ChatOf(i)]
                ELSE [@ EXCEPT !.pc = "dropped", !.kind = kind]]
    /\ UNCHANGED <<pc_main, cfg, stdout, registered, outbox, probe>>

\* Lines 72-81: reply_html with the greeting; a failed send raises.
StartCommand(i) ==
    /\ h[i].pc = "start"
    /\ \E ok \in BOOLEAN :
        /\ h' = [h EXCEPT ![i].pc = IF ok THEN "done" ELSE "raised",
                          ![i].log = Logged(i, IF ok THEN "start_ok" ELSE "start_fail")]
        /\ outbox' = IF ok
                     THEN [outbox EXCEPT ![h[i].chat_id] =
                             Append(@, [text |-> StartMsg(cfg.AI_PROVIDER), update |-> i])]
                     ELSE outbox
    /\ UNCHANGED <<pc_main, cfg, stdout, registered, probe>>

\* Lines 140-147: return on an empty text, else send the typing action.
HandleMessage(i) ==
    /\ h[i].pc = "entry"
    /\ IF h[i].user_message = << >>
       THEN h' = [h EXCEPT ![i].pc = "done"]
       ELSE \E ok \in BOOLEAN :
              h' = [h EXCEPT ![i].pc = NextPc("typing", ok),
                             ![i].user_message = Local(NextPc("typing", ok), @),
                             ![i].log = Logged(i, IF ok THEN "typing_ok" ELSE "typing_fail")]
    /\ UNCHANGED <<pc_main, cfg, stdout, registered, outbox, probe>>

\* Line 150 with lines 85-133: one provider request and the extraction.
AiCall(i) ==
    /\ h[i].pc = "ai"
    /\ \E r \in {get_ai_response(cfg.AI_PROVIDER, cfg.client, out) :
                    out \in Outcomes(cfg.AI_PROVIDER)} :
        LET pc == IF r.raised THEN "raised" ELSE NextPc("ai", r.exc = "none")
        IN
        h' = [h EXCEPT ![i].pc = pc,
                       ![i].ai_response = Local(pc, r.value),
                       ![i].user_message = Local(pc, @),
                       ![i].requests = Append(@, h[i].user_message),
                       ![i].log = Logged(i, "request")]
    /\ UNCHANGED <<pc_main, cfg, stdout, registered, outbox, probe>>

\* Lines 153-156: reply_text(ai_response); a failure is logged.
Reply(i) ==
    /\ h[i].pc = "reply"
    /\ \E ok \in BOOLEAN :
        /\ h' = [h EXCEPT ![i].pc = NextPc("reply", ok),
                          ![i].user_message = Local(NextPc("reply", ok), @),
                          ![i].ai_response = Local(NextPc("reply", ok), @),
                          ![i].log = Logged(i, IF ok THEN "reply_ok" ELSE "reply_fail")]
        /\ outbox' = IF ok
                     THEN [outbox EXCEPT ![h[i].chat_id] =
                             Append(@, [text |-> ReplyPayload(h[i]), update |-> i])]
                     ELSE outbox
    /\ UNCHANGED <<pc_main, cfg, stdout, registered, probe>>

\* Line 158: reply_text with the fallback text, inside the except block and
\* unguarded: a failure leaves handle_message as an exception.
Fallback(i) ==
    /\ h[i].pc = "fallback"
    /\ \E ok \in BOOLEAN :
        /\ h' = [h EXCEPT ![i].pc = NextPc("fallback", ok),
                          ![i].user_message = Local(NextPc("fallback", ok), @),
                          ![i].ai_response = Local(NextPc("fallback", ok), @),
                          ![i].log = Logged(i, IF ok THEN "fallback_ok" ELSE "fallback_fail")]
        /\ outbox' = IF ok
                     THEN [outbox EXCEPT ![h[i].chat_id] =
                             Append(@, [text |-> FallbackMsg, update |-> i])]
                     ELSE outbox
    /\ UNCHANGED <<pc_main, cfg, stdout, registered, probe>>

\* Lines 162-164: the application hands an exception that left a handler to
\* error_handler, which logs it and sends nothing.
ErrorHandler(i) ==
    /\ h[i].pc = "raised"
    /\ "error_handler" \in registered
    /\ h' = [h EXCEPT ![i].pc = "error_logged"]
    /\ UNCHANGED <<pc_main, cfg, stdout, registered, outbox, probe>>

Next ==
    \/ ProviderSetup
    \/ TokenSetup
    \/ Main
    \/ \E i \in Updates : Deliver(i)
    \/ \E i \in Updates : StartCommand(i)
    \/ \E i \in Updates : HandleMessage(i)
    \/ \E i \in Updates : AiCall(i)
    \/ \E i \in Updates : Reply(i)
    \/ \E i \in Updates : Fallback(i)
    \/ \E i \in Updates : ErrorHandler(i)

Spec == Init /\ [][Next]_vars

\* ------------------------------------- get_ai_response as a pure function

\* The configurations startup can leave behind (lines 25-26 and 42-43).
StartedCfgs ==
    {[AI_PROVIDER |-> "openai", api_key |-> "key", client |-> "OpenAI",
      model |-> DefaultOpenAIModel, TELEGRAM_BOT_TOKEN |-> "token"],
     [AI_PROVIDER |-> "gemini", api_key |-> "key", client |-> "GenerativeModel",
      model |-> DefaultGeminiModel, TELEGRAM_BOT_TOKEN |-> "token"]}

InitRespond ==
    /\ pc_main = "polling"
    /\ cfg \in StartedCfgs
    /\ stdout = <<"Using AI Provider">>
    /\ registered = {"start_command", "handle_message", "error_handler"}
    /\ h = [i \in Updates |-> InitHandler]
    /\ outbox = [c \in Chats |-> << >>]
    /\ probe \in {[InitProbe EXCEPT !.user_message = t] : t \in Texts \ {<< >>}}

\* Lines 85-133 applied to a non-empty text and one outcome of the provider.
Respond ==
    /\ ~probe.called
    /\ \E out \in Outcomes(cfg.AI_PROVIDER) :
        probe' = [probe EXCEPT !.called = TRUE, !.outcome = out,
                               !.result = get_ai_response(cfg.AI_PROVIDER, cfg.client, out)]
    /\ UNCHANGED <<pc_main, cfg, stdout, registered, h, outbox>>

NextRespond == Respond

SpecRespond == InitRespond /\ [][NextRespond]_vars

\* ---------------------------------------------------------------- claims

Count(log, event) == Cardinality({k \in DOMAIN log : log[k] = event})

\* The number of texts Telegram accepted in answer to update i.
Delivered(i) ==
    Cardinality({<<c, k>> \in Chats \X (1..4) :
                    k \in DOMAIN outbox[c] /\ outbox[c][k].update = i})

Finished(i) == h[i].pc \in {"done", "raised", "error_logged"}

SendEvents == {"reply_ok", "reply_fail", "fallback_ok", "fallback_fail"}

Contains(s, name) == \E k \in DOMAIN s : s[k] = name

\* C1: every text message handed to handle_message ends with exactly one
\* text delivered to the chat, whatever the sends and the provider call do.
C1_ExactlyOneReply ==
    \A i \in Updates : (h[i].kind = "text" /\ Finished(i)) => Delivered(i) = 1

\* C2: get_ai_response never raises: whatever fails inside it, the exception
\* is caught there and the generic failure string naming the provider is
\* returned.
C2_NeverRaises ==
    probe.called =>
        /\ ~probe.result.raised
        /\ (probe.outcome.kind = "raise" \/ probe.result.exc /= "none") =>
              /\ probe.result.value = FailureMsg(cfg.AI_PROVIDER)
              /\ Contains(probe.result.value, Capitalize(cfg.AI_PROVIDER))

C2_Witness ==
    /\ probe.called
    /\ cfg.AI_PROVIDER = "gemini"
    /\ probe.outcome.kind = "raise"
    /\ probe.result.exc = "APIError"
    /\ probe.result.value = FailureMsg("gemini")

\* C3: for a non-empty input text get_ai_response returns a non-empty str,
\* under both providers and for every provider response.
C3_NonEmptyResult ==
    (probe.called /\ probe.user_message /= << >>) => Len(probe.result.value) > 0

\* C4: when the provider name is invalid, or the selected provider's API key
\* or the Telegram token is missing, the process exits: no handler is
\* registered, polling never starts, no update is handled, nothing is sent.
\* Nothing of this happens before polling either.
C4_MissingConfigHalts ==
    LET provider_bad == pc_main /= "provider_setup"
                        /\ (cfg.AI_PROVIDER \notin {"openai", "gemini"}
                            \/ cfg.api_key \in {None, ""})
        token_bad == pc_main \notin {"provider_setup", "token_setup"}
                     /\ cfg.TELEGRAM_BOT_TOKEN \in {None, ""}
        untouched == /\ registered = {}
                     /\ \A i \in Updates : h[i] = InitHandler
                     /\ \A c \in Chats : outbox[c] = << >>
    IN  /\ (provider_bad \/ token_bad) => (pc_main = "exited" /\ untouched)
        /\ pc_main \notin {"polling"} => \A i \in Updates : h[i] = InitHandler
        /\ pc_main \notin {"polling"} => \A c \in Chats : outbox[c] = << >>

C4_Witness ==
    /\ pc_main = "exited"
    /\ cfg.AI_PROVIDER = "gemini"
    /\ cfg.api_key = ""
    /\ stdout = <<"API key not found in .env file">>
    /\ registered = {}

\* C5 as stated: with Gemini, a response whose prompt_feedback carries a
\* block reason always yields a string containing that reason's name, also
\* when the response carries candidates.
C5_BlockReasonAlwaysNamed ==
    (/\ probe.called
     /\ cfg.AI_PROVIDER = "gemini"
     /\ probe.outcome.kind = "response"
     /\ probe.outcome.prompt_feedback.set
     /\ probe.outcome.prompt_feedback.block_reason /= 0)
    => Contains(probe.result.value,
                BlockReasonName(probe.outcome.prompt_feedback.block_reason))

\* C5 amended: with Gemini, a response that has no candidates and whose
\* prompt_feedback carries a block reason yields a string containing that
\* reason's name.
C5_BlockReasonNamedWithoutCandidates ==
    (/\ probe.called
     /\ cfg.AI_PROVIDER = "gemini"
     /\ probe.outcome.kind = "response"
     /\ probe.outcome.candidates = << >>
     /\ probe.outcome.prompt_feedback.set
     /\ probe.outcome.prompt_feedback.block_reason /= 0)
    => /\ Contains(probe.result.value,
                   BlockReasonName(probe.outcome.prompt_feedback.block_reason))
       /\ probe.result.exc = "none"

C5_Witness ==
    /\ probe.called
    /\ cfg.AI_PROVIDER = "gemini"
    /\ probe.outcome.kind = "response"
    /\ probe.outcome.candidates = << >>
    /\ probe.outcome.prompt_feedback.set
    /\ probe.outcome.prompt_feedback.block_reason = 1
    /\ Contains(probe.result.value, "SAFETY")

\* C6: with Gemini, no candidates and no block reason give exactly the
\* "empty response" string; candidates whose first one has no content parts
\* give exactly the "couldn't generate" string.
C6_FixedStrings ==
    (probe.called /\ cfg.AI_PROVIDER = "gemini" /\ probe.outcome.kind = "response") =>
        LET cs == probe.outcome.candidates
            pf == probe.outcome.prompt_feedback
        IN  /\ (cs = << >> /\ ~(pf.set /\ pf.block_reason /= 0))
                  => probe.result.value = EmptyResponseMsg
            /\ (cs /= << >> /\ (~cs[1].has_content \/ ~cs[1].has_parts
                                 \/ cs[1].parts = << >>))
                  => probe.result.value = CouldntGenerateMsg

C6_Witness ==
    /\ probe.called
    /\ cfg.AI_PROVIDER = "gemini"
    /\ probe.outcome.kind = "response"
    /\ probe.outcome.candidates = << >>
    /\ probe.outcome.prompt_feedback.set
    /\ probe.outcome.prompt_feedback.block_reason = 0
    /\ probe.result.value = EmptyResponseMsg

\* C7: with OpenAI, a completion call that succeeds yields the first
\* choice's content stripped, and never the generic failure string.
C7_OpenAIReturnsStrippedContent ==
    (/\ probe.called
     /\ cfg.AI_PROVIDER = "openai"
     /\ probe.outcome.kind = "completion"
     /\ probe.outcome.choices /= << >>
     /\ ~probe.outcome.choices[1].is_none)
    => /\ probe.result.value = Strip(probe.outcome.choices[1].content)
       /\ probe.result.value /= FailureMsg("openai")

\* C8: when sending the AI reply fails, the fallback text is sent exactly
\* once, nothing else is sent, and handle_message does not raise, also when
\* the fallback send fails.
C8_FallbackOnceNoRaise ==
    \A i \in Updates :
        (Contains(h[i].log, "reply_fail") /\ Finished(i)) =>
            /\ Count(h[i].log, "fallback_ok") + Count(h[i].log, "fallback_fail") = 1
            /\ Count(h[i].log, "reply_ok") + Count(h[i].log, "reply_fail") = 1
            /\ h[i].pc = "done"

\* C9: a handler issues at most one provider request, and exactly one once
\* the typing indicator was sent for a non-empty text; a failed request is
\* not issued again; the typing indicator comes before the request and the
\* request before every reply send.
C9_NoRetry ==
    \A i \in Updates :
        LET log == h[i].log IN
        /\ Count(log, "request") <= 1
        /\ Len(h[i].requests) = Count(log, "request")
        /\ (Contains(log, "typing_ok") /\ h[i].pc /= "ai") => Count(log, "request") = 1
        /\ \A k \in DOMAIN log :
              log[k] = "request" => \E j \in 1..(k - 1) : log[j] = "typing_ok"
        /\ \A k \in DOMAIN log :
              log[k] \in SendEvents => \E j \in 1..(k - 1) : log[j] = "request"

C9_Witness ==
    \E i \in Updates :
        /\ h[i].pc = "fallback"
        /\ h[i].ai_response = FailureMsg(cfg.AI_PROVIDER)
        /\ h[i].log = <<"typing_ok", "request", "reply_fail">>
        /\ h[i].requests = <<TextOf(i)>>

\* What one step delivers: the entries appended to the outbox.
NewlyDelivered ==
    {d \in [chat : Chats, text : {outbox'[c][Len(outbox'[c])].text : c \in
                {c \in Chats : outbox'[c] /= << >>}}, update : Updates] :
        /\ Len(outbox'[d.chat]) = Len(outbox[d.chat]) + 1
        /\ outbox'[d.chat][Len(outbox'[d.chat])] = [text |-> d.text, update |-> d.update]}

\* No step changes the locals of two invocations, and what a step does to
\* invocation i is decided by invocation i's own locals.
HandlersIsolated ==
    /\ \A i, j \in Updates : (i /= j /\ h'[i] /= h[i]) => h'[j] = h[j]
    /\ \A i \in Updates :
          Len(h'[i].requests) > Len(h[i].requests) =>
              h'[i].requests = Append(h[i].requests, TextOf(i))

\* The provider selection and the model name do not change after startup.
ConfigFrozen ==
    pc_main \in {"main", "polling"} => cfg' = cfg

====
